---------------------------- MODULE Spec2Model ----------------------------
(***************************************************************************)
(* The exchange-matching engine of hautor/secretos.                        *)
(*                                                                         *)
(* The repository holds six revisions of one small server:                 *)
(*   "perm_session"    src/unnamed/part_000    1- 252  Postgres, permanent, *)
(*                                                    exclusion by session *)
(*   "sqlite_fallback" src/unnamed/part_000  254- 480  SQLite, claim-once,  *)
(*                                                    other session first, *)
(*                                                    then same session    *)
(*   "sqlite_random"   src/unnamed/part_000  483- 656  SQLite, claim-once,  *)
(*                                                    ORDER BY RANDOM()    *)
(*   "pg_fallback"     src/unnamed/part_000  658- 966  Postgres, claim-once,*)
(*                                                    with fallback        *)
(*   "pg_strict"       src/unnamed/part_000  968-1259  Postgres, claim-once,*)
(*                                                    other session only   *)
(*   "perm_author"     src/server.js                  Postgres, permanent, *)
(*                                                    session + author     *)
(*                                                    hash + 3 s window    *)
(*                                                                         *)
(* A behaviour runs one revision (rev, fixed by Init).  Each process in    *)
(* Procs is an HTTP client connection: it sends a request, the handler     *)
(* runs up to its next await, and handlers of different processes          *)
(* interleave at the awaits (the store calls).                             *)
(***************************************************************************)
EXTENDS Integers, Sequences, FiniteSets, TLC

VARIABLES
    rev,      \* the revision this behaviour runs
    now,      \* the store's clock, in seconds
    secrets,  \* the table "secrets": a sequence of rows, in insertion order
    pc,       \* pc[p]: where process p's handler is suspended
    req,      \* req[p]: the request process p's handler is serving
    pick,     \* pick[p]: the id the selection of p's claim found (0: none)
    last,     \* the request the last step answered, and its response
    log,      \* who was handed which row so far, in the order of the first time
    nreq,     \* the number of requests sent so far
    quota     \* the number of requests the clients send in this behaviour

vars == <<rev, now, secrets, pc, req, pick, last, log, nreq, quota>>

(***************************************************************************)
(* Bounds of the model.                                                    *)
(***************************************************************************)
MaxTicks == 3   \* the clock ticks MaxTicks times
MaxReqs == 3    \* requests sent in one behaviour
MaxClaims == 4  \* requests sent in a behaviour of successive claims
MaxChecks == 2  \* requests sent in a behaviour of validated submissions
MaxItems == 2   \* rows the table holds
NProcs == 2     \* concurrent client connections

Procs == 1..NProcs

(***************************************************************************)
(* Program constants.                                                      *)
(***************************************************************************)
MinTextLen == 5
MaxTextLen == 1000
GraceSeconds == 3
PollExcludeId == -1

\* The resolution of the model's clock: one tick is one grace window.
TickSeconds == GraceSeconds

NULL == "NULL"        \* SQL NULL, JS undefined / null
Anon == "anon"        \* req.cookies.sid || 'anon'

Revisions ==
    {"perm_session", "sqlite_fallback", "sqlite_random",
     "pg_fallback", "pg_strict", "perm_author"}

\* Variant: only the first revision is permanent.
OnlyFirstPermanent(r) == r = "perm_session"

ClaimOnce(r) == r \in {"sqlite_fallback", "sqlite_random", "pg_fallback", "pg_strict"}
Permanent(r) == r \in {"perm_session", "perm_author"}
HasFallback(r) == r \in {"sqlite_fallback", "pg_fallback"}
IsSqlite(r) == r \in {"sqlite_fallback", "sqlite_random"}


(***************************************************************************)
(* Request inputs.  A raw text is a sequence of tokens: a token is a word  *)
(* or a run of white space; the JavaScript string is their concatenation.  *)
(***************************************************************************)
D10 == "abcdefghij"
D100 == D10 \o D10 \o D10 \o D10 \o D10 \o D10 \o D10 \o D10 \o D10 \o D10
D1000 == D100 \o D100 \o D100 \o D100 \o D100 \o D100 \o D100 \o D100 \o D100 \o D100

Hello1 == <<"hello1">>
Hello2 == <<"hello2">>

\* Texts the scenarios of the specification submit.
ScenarioTexts == {Hello1, Hello2, <<"abcd">>}

\* Texts around the bounds of the validation, and on the denylist.
BoundaryTexts ==
    {<<>>, <<"abcd">>, <<"abcde">>, <<" ", "abcd", " ">>, <<" ", "abcde", " ">>,
     <<D1000>>, <<D1000 \o "k">>, <<"incesto">>, <<"porno">>}

\* The caption a client may send with an audio file (req.body.text).
AudioCaptions == {<<>>}

Cookies == {"s1", "s2"}
Addresses == {"10.0.0.1", "10.0.0.2"}      \* req.ip of the clients that submit
VisitorAddress == "10.0.0.3"
Visitors == Addresses \cup {VisitorAddress}    \* req.ip of the clients that poll
VisitorCookie == "s3"                      \* the sid cookie of a client that only polls
Agents == {"ua"}
Salt == "default_salt_change_me"

NanoIds == <<"n1", "n2", "n3", "n4", "n5", "n6", "n7", "n8">>

IsSpace(tok) == tok = " "

RECURSIVE TrimLeft(_)
TrimLeft(raw) ==
    IF raw # <<>> /\ IsSpace(Head(raw)) THEN TrimLeft(Tail(raw)) ELSE raw

RECURSIVE TrimRight(_)
TrimRight(raw) ==
    IF raw # <<>> /\ IsSpace(raw[Len(raw)])
    THEN TrimRight(SubSeq(raw, 1, Len(raw) - 1))
    ELSE raw

\* String.prototype.trim
Trim(raw) == TrimRight(TrimLeft(raw))

RECURSIVE JsLength(_)
\* String.prototype.length
JsLength(text) ==
    IF text = <<>> THEN 0 ELSE Len(Head(text)) + JsLength(Tail(text))

\* The regular expressions of banned, by revision.
Banned(r) ==
    IF IsSqlite(r)
    THEN {"porn\\w*", "violaci[o]n", "abuso\\s*infantil", "terrorismo", "incesto"}
    ELSE {"abuso\\s*infantil", "violaci[o]n", "incesto", "terrorismo"}

\* re.test(tok), on the words the model's texts are made of.
ReTest(re, tok) ==
    \/ re = "incesto" /\ tok = "incesto"
    \/ re = "porn\\w*" /\ tok = "porno"

\* Variant: an empty denylist.
NoPolicy(r, text) == FALSE

violatesPolicy(r, text) ==
    \E re \in Banned(r) : \E i \in 1..Len(text) : ReTest(re, text[i])

\* crypto.createHash('sha256').update(raw).digest('hex'): one-to-one on the inputs.
Sha256(raw) == "sha256(" \o raw \o ")"

authorFingerprint(ip, ua) == Sha256(ip \o "|" \o ua \o "|" \o Salt)

\* The session ids the state holds.
KnownSids ==
    {secrets[i].session_id : i \in 1..Len(secrets)}
        \cup {secrets[i].claimed_by : i \in 1..Len(secrets)}
        \cup {req[p].sid : p \in DOMAIN req} \cup {last.sid}

\* nanoid(16): a freshly minted session id, unlike any cookie and any id minted
\* before (the first name of NanoIds the state does not hold).
Minted ==
    NanoIds[CHOOSE n \in 1..Len(NanoIds) :
               /\ NanoIds[n] \notin KnownSids
               /\ \A m \in 1..(n - 1) : NanoIds[m] \in KnownSids]

\* The session middleware: req.cookies.sid as the handlers see it.
SessionOf(r, cookie) ==
    IF cookie # NULL THEN cookie
    ELSE IF IsSqlite(r) THEN NULL      \* the cookie is set on the response only
    ELSE Minted

(***************************************************************************)
(* The store.                                                              *)
(***************************************************************************)
\* Variant: a row that is stored as claimed by its owner.
NewRowClaimed(id, type, text, t, sid, author) ==
    [id |-> id, type |-> type, text |-> text, created_at |-> t,
     session_id |-> sid, author_hash |-> author,
     claimed |-> TRUE, claimed_by |-> sid]

NewRow(id, type, text, t, sid, author) ==
    [id |-> id, type |-> type, text |-> text, created_at |-> t,
     session_id |-> sid, author_hash |-> author,
     claimed |-> FALSE, claimed_by |-> NULL]

\* BIGSERIAL / AUTOINCREMENT
NextId == Len(secrets) + 1

\* Variant: a comparison every pair of sessions passes.
AnySession(a, b) == TRUE

\* a <> b in SQL: not true when either side is NULL
SqlNe(a, b) == a # NULL /\ b # NULL /\ a # b

\* Variant: a comparison every pair of author hashes passes.
AnyAuthor(a, b) == TRUE

\* a IS DISTINCT FROM b
IsDistinctFrom(a, b) == a # b

\* text_content of a row without text (an audio without caption): NULL
NoText == <<>>

(***************************************************************************)
(* The selection queries.                                                  *)
(***************************************************************************)
\* Variant: no grace window.
AnyAge(row, t) == TRUE

\* created_at < NOW() - INTERVAL '3 seconds'
Aged(row, t) == row.created_at < t - GraceSeconds

\* The WHERE clause of getExchangeSecret's (first) selection; getAvailableSecret
\* in "sqlite_random".  t is the statement's NOW().
ExchangeWhere(r, row, exId, sid, author, t) ==
    CASE r = "perm_session" ->
            row.id # exId /\ SqlNe(row.session_id, sid)
      [] r = "perm_author" ->
            /\ row.id # exId
            /\ SqlNe(row.session_id, sid)
            /\ IsDistinctFrom(row.author_hash, author)
            /\ Aged(row, t)
      [] r = "sqlite_random" ->
            ~row.claimed /\ SqlNe(row.session_id, sid)
      [] OTHER ->
            ~row.claimed /\ row.id # exId /\ SqlNe(row.session_id, sid)

\* The WHERE clause of the query GET /api/secrets/one runs itself in the
\* permanent revisions.
PollWhere(r, row, sid, author, t) ==
    IF r = "perm_author"
    THEN /\ SqlNe(row.session_id, sid)
         /\ IsDistinctFrom(row.author_hash, author)
         /\ Aged(row, t)
    ELSE SqlNe(row.session_id, sid)

\* Variant: a second selection that does not exclude the inserted id.
FallbackAny(row, exId) == ~row.claimed

\* The WHERE clause of the second selection of the fallback revisions.
FallbackWhere(row, exId) == ~row.claimed /\ row.id # exId

\* Variant: LIMIT 1 without ORDER BY.
AnyOrder(r, idxs) == {secrets[i].id : i \in idxs}

\* Variant: ORDER BY created_at DESC LIMIT 1.
NewestFirst(r, idxs) ==
    {secrets[i].id : i \in
        {j \in idxs : \A k \in idxs : secrets[j].created_at >= secrets[k].created_at}}

\* ORDER BY created_at ASC LIMIT 1 (ORDER BY RANDOM() LIMIT 1 in
\* "sqlite_random"): the ids the statement may return among the rows at idxs.
\* Rows of equal created_at come in an order SQL leaves open.
OrderLimit1(r, idxs) ==
    IF r = "sqlite_random"
    THEN {secrets[i].id : i \in idxs}
    ELSE {secrets[i].id : i \in
             {j \in idxs : \A k \in idxs : secrets[j].created_at <= secrets[k].created_at}}

ExchangeCandidates(r, exId, sid, author, t) ==
    OrderLimit1(r, {i \in 1..Len(secrets) :
                       ExchangeWhere(r, secrets[i], exId, sid, author, t)})

PollCandidates(r, sid, author, t) ==
    OrderLimit1(r, {i \in 1..Len(secrets) : PollWhere(r, secrets[i], sid, author, t)})

FallbackCandidates(r, exId) ==
    OrderLimit1(r, {i \in 1..Len(secrets) : FallbackWhere(secrets[i], exId)})

\* The row with the given id (ids are positions: rows are never deleted).
RowOf(id) == secrets[id]

\* formatSecret
formatSecret(row) ==
    IF row.type = "audio"
    THEN [type |-> "audio", ref |-> row.id, text |-> NoText]
    ELSE [type |-> "text", ref |-> 0, text |-> row.text]

NoBody == [type |-> "none", ref |-> 0, text |-> NoText]

\* /api/stats
AvailableTotal(r) ==
    IF Permanent(r)
    THEN Len(secrets)
    ELSE Cardinality({i \in 1..Len(secrets) : ~secrets[i].claimed})

(***************************************************************************)
(* JavaScript values of the defensive re-check of "pg_strict".             *)
(***************************************************************************)
\* node-postgres hands a BIGINT / BIGSERIAL column to JavaScript as a string.
PgBigint(n) == [t |-> "string", v |-> n]

\* Number(x)
JsNumber(n) == [t |-> "number", v |-> n]

\* a === b
StrictEq(a, b) == a.t = b.t /\ a.v = b.v

\* Variant: a re-check that discards every row.
AlwaysDiscarded(row, exId, sid) == TRUE

\* The two checks after the claim statement: TRUE when the row is discarded.
Discarded(row, exId, sid) ==
    \/ StrictEq(PgBigint(row.id), JsNumber(exId))
    \/ row.session_id = sid

(***************************************************************************)
(* The state after construction: an empty table, every connection idle.    *)
(***************************************************************************)
\* at is the timestamp an INSERT in flight carries: NOW() of its statement, or
\* the Date.now() passed to db.run.  counts are the results of the queries a
\* GET /api/stats has awaited so far.
NoReq ==
    [kind |-> "none", sid |-> NULL, author |-> NULL, raw |-> <<>>, exId |-> 0,
     at |-> 0, counts |-> <<>>]

NoLast ==
    [proc |-> 0, kind |-> "none", sid |-> NULL, author |-> NULL, raw |-> <<>>,
     exId |-> 0, t |-> 0, status |-> 0, id |-> 0, body |-> NoBody]

InitRev(revs, n) ==
    /\ rev \in revs
    /\ now = 0
    /\ secrets = <<>>
    /\ pc = [p \in Procs |-> "idle"]
    /\ req = [p \in Procs |-> NoReq]
    /\ pick = [p \in Procs |-> 0]
    /\ last = NoLast
    /\ log = <<>>
    /\ nreq = 0
    /\ quota = n

Init == InitRev(Revisions, MaxReqs)

(***************************************************************************)
(* Steps of the handlers.                                                  *)
(***************************************************************************)
\* res.status(...).end() / res.json(...): the handler of p ends.  t is the NOW()
\* of the selection that found row.  last holds the answer until the next step.
Reply(p, rq, status, row, t) ==
    /\ pc' = [pc EXCEPT ![p] = "idle"]
    /\ req' = [req EXCEPT ![p] = NoReq]
    /\ pick' = [pick EXCEPT ![p] = 0]
    /\ last' = [proc |-> p, kind |-> rq.kind, sid |-> rq.sid, author |-> rq.author,
                raw |-> rq.raw, exId |-> rq.exId, t |-> t, status |-> status,
                id |-> IF status = 200 THEN row.id ELSE 0,
                body |-> IF status = 200 THEN formatSecret(row) ELSE NoBody]
    /\ LET entry == [proc |-> p, sid |-> rq.sid, id |-> row.id]
       IN  log' = IF status = 200 /\ \A k \in DOMAIN log : log[k] # entry
                  THEN Append(log, entry)
                  ELSE log

\* The first selection of a request rq of p, run at the store's time now.
FirstSelection(p, rq) ==
    LET cands == IF rq.kind = "poll" /\ Permanent(rev)
                 THEN PollCandidates(rev, rq.sid, rq.author, now)
                 ELSE ExchangeCandidates(rev, rq.exId, rq.sid, rq.author, now)
    IN  IF cands = {}
        THEN IF HasFallback(rev)
             THEN /\ pc' = [pc EXCEPT ![p] = "q2"]
                  /\ req' = [req EXCEPT ![p] = rq]
                  /\ last' = NoLast
                  /\ UNCHANGED <<pick, log>>
             ELSE Reply(p, rq, 204, NoLast, 0)
        ELSE \E id \in cands :
                IF Permanent(rev)
                THEN Reply(p, rq, 200, RowOf(id), now)
                ELSE /\ pc' = [pc EXCEPT ![p] = "upd1"]
                     /\ req' = [req EXCEPT ![p] = rq]
                     /\ pick' = [pick EXCEPT ![p] = id]
                     /\ last' = NoLast
                     /\ UNCHANGED log

\* INSERT INTO secrets ... RETURNING id, then the handler awaits the matching.
Insert(p, rq, type, text) ==
    LET id == NextId
    IN  /\ secrets' = Append(secrets, NewRow(id, type, text, now, rq.sid, rq.author))
        /\ pc' = [pc EXCEPT ![p] = "match"]
        /\ req' = [req EXCEPT ![p] = [rq EXCEPT !.exId = id]]
        /\ last' = NoLast
        /\ UNCHANGED <<pick, log>>

NewReq(kind, cookie, ip, ua, raw) ==
    [kind |-> kind,
     sid |-> SessionOf(rev, cookie),
     author |-> IF rev = "perm_author" THEN authorFingerprint(ip, ua) ELSE NULL,
     raw |-> raw, exId |-> 0, at |-> 0, counts |-> <<>>]

\* POST /api/secrets/text, up to the await of the INSERT, sent with one of
\* cookies from one of ips.
Submits(p, texts, cookies, ips) ==
    /\ pc[p] = "idle"
    /\ nreq < quota
    /\ nreq' = nreq + 1
    /\ \E cookie \in cookies, ip \in ips, ua \in Agents, raw \in texts :
          LET rq == NewReq("text", cookie, ip, ua, raw)
              text == Trim(raw)
          IN  IF text = <<>> \/ JsLength(text) < MinTextLen \/ JsLength(text) > MaxTextLen
              THEN Reply(p, rq, 400, NoLast, 0) /\ UNCHANGED secrets
              ELSE IF violatesPolicy(rev, text)
              THEN Reply(p, rq, 400, NoLast, 0) /\ UNCHANGED secrets
              ELSE IF rq.sid = NULL      \* session_id TEXT NOT NULL
              THEN Reply(p, rq, 500, NoLast, 0) /\ UNCHANGED secrets
              ELSE Len(secrets) < MaxItems /\ Insert(p, rq, "text", text)
    /\ UNCHANGED <<rev, now, quota>>

\* POST /api/secrets/text, up to the await of the INSERT
SubmitText(p, texts) == Submits(p, texts, Cookies \cup {NULL}, Addresses)

\* POST /api/secrets/audio, up to the await of the INSERT
SubmitAudio(p) ==
    /\ pc[p] = "idle"
    /\ nreq < quota
    /\ nreq' = nreq + 1
    /\ \E cookie \in Cookies \cup {NULL}, ip \in Addresses, ua \in Agents,
          file \in BOOLEAN, caption \in AudioCaptions :
          LET rq == NewReq("audio", cookie, ip, ua, caption)
          IN  IF ~file
              THEN Reply(p, rq, 400, NoLast, 0) /\ UNCHANGED secrets
              ELSE IF rq.sid = NULL
              THEN Reply(p, rq, 500, NoLast, 0) /\ UNCHANGED secrets
              ELSE Len(secrets) < MaxItems
                   /\ Insert(p, rq, "audio",
                             IF rev = "sqlite_random" THEN NoText ELSE Trim(caption))
    /\ UNCHANGED <<rev, now, quota>>

\* The awaited matching of a submit: getExchangeSecret / getAvailableSecret.
Match(p) ==
    /\ pc[p] = "match"
    /\ FirstSelection(p, req[p])
    /\ UNCHANGED <<rev, now, secrets, nreq, quota>>

\* Variant: a poll that excludes the first id instead of the sentinel.
PollsExcludingFirst(p, cookies, ips) ==
    /\ pc[p] = "idle"
    /\ \E cookie \in cookies, ip \in ips, ua \in Agents :
          LET rq == NewReq("poll", cookie, ip, ua, <<>>)
              sid == IF rq.sid = NULL /\ rev # "sqlite_random" THEN Anon ELSE rq.sid
          IN  FirstSelection(p, [rq EXCEPT !.sid = sid, !.exId = 1])
    /\ UNCHANGED <<rev, now, secrets, quota>>

\* GET /api/secrets/one, sent with one of cookies from one of ips.
Polls(p, cookies, ips) ==
    /\ pc[p] = "idle"
    /\ \E cookie \in cookies, ip \in ips, ua \in Agents :
          LET rq == NewReq("poll", cookie, ip, ua, <<>>)
              sid == IF rq.sid = NULL /\ rev # "sqlite_random" THEN Anon ELSE rq.sid
          IN  FirstSelection(p, [rq EXCEPT !.sid = sid, !.exId = PollExcludeId])
    /\ UNCHANGED <<rev, now, secrets, quota>>

\* GET /api/secrets/one
Poll(p) ==
    /\ nreq < quota
    /\ nreq' = nreq + 1
    /\ Polls(p, Cookies \cup {NULL}, Visitors)

\* GET /api/secrets/one of a visitor who never submits and polls time and again.
KeepsPolling(p) ==
    /\ nreq' = nreq
    /\ Polls(p, {VisitorCookie}, {VisitorAddress})

\* The second selection of the fallback revisions.
SecondSelection(p) ==
    /\ pc[p] = "q2"
    /\ LET cands == FallbackCandidates(rev, req[p].exId)
       IN  IF cands = {}
           THEN Reply(p, req[p], 204, NoLast, 0)
           ELSE \E id \in cands :
                   /\ pc' = [pc EXCEPT ![p] = "upd2"]
                   /\ pick' = [pick EXCEPT ![p] = id]
                   /\ last' = NoLast
                   /\ UNCHANGED <<req, log>>
    /\ UNCHANGED <<rev, now, secrets, nreq, quota>>

\* Variant: an UPDATE without its WHERE clause.
ClaimEvery(p) ==
    /\ pc[p] \in {"upd1", "upd2"}
    /\ secrets' = [i \in 1..Len(secrets) |->
                      [secrets[i] EXCEPT !.claimed = TRUE, !.claimed_by = req[p].sid]]
    /\ Reply(p, req[p], 200, secrets'[pick[p]], 0)
    /\ UNCHANGED <<rev, now, nreq, quota>>

\* UPDATE secrets SET claimed, claimed_by WHERE id = <the row picked>, and the
\* handler's reply.
Claim(p) ==
    /\ pc[p] \in {"upd1", "upd2"}
    /\ secrets' = [secrets EXCEPT ![pick[p]] =
                      [@ EXCEPT !.claimed = TRUE, !.claimed_by = req[p].sid]]
    /\ LET row == secrets'[pick[p]]
       IN  IF rev = "pg_strict" /\ Discarded(row, req[p].exId, req[p].sid)
           THEN Reply(p, req[p], 204, NoLast, 0)
           ELSE Reply(p, req[p], 200, row, 0)
    /\ UNCHANGED <<rev, now, nreq, quota>>

\* Time passes.  Only "perm_author" reads the clock in a query; in the other
\* revisions only the order of the created_at values is read, and the clock
\* moves on once a row carries its current value.
Tick ==
    /\ now < MaxTicks * TickSeconds
    /\ rev = "perm_author" \/ \E i \in 1..Len(secrets) : secrets[i].created_at = now
    /\ now' = now + TickSeconds
    /\ last' = NoLast
    /\ UNCHANGED <<rev, secrets, pc, req, pick, log, nreq, quota>>

Next ==
    \/ \E p \in Procs : SubmitText(p, ScenarioTexts)
    \/ \E p \in Procs : SubmitAudio(p)
    \/ \E p \in Procs : Poll(p)
    \/ \E p \in Procs : Match(p)
    \/ \E p \in Procs : SecondSelection(p)
    \/ \E p \in Procs : Claim(p)
    \/ Tick

Spec == Init /\ [][Next]_vars

\* Successive claims against the revisions without a second selection.
InitClaims == InitRev({"pg_strict", "sqlite_random"}, MaxClaims)

NextClaims ==
    \/ \E p \in Procs : SubmitText(p, {Hello1, Hello2})
    \/ \E p \in Procs : Poll(p)
    \/ \E p \in Procs : Match(p)
    \/ \E p \in Procs : Claim(p)
    \/ Tick

SpecClaims == InitClaims /\ [][NextClaims]_vars

\* Variant: a catch block that answers as if nothing was found.
Swallow(p) == Reply(p, req[p], 204, NoLast, 0)

\* catch (e) { res.status(500).json(...) }
CatchReply(p) == Reply(p, req[p], 500, NoLast, 0)

\* A store call of p's handler rejects (pool.query throws, a sqlite3 callback
\* gets err): the statement has no effect and the handler goes to its catch
\* block.  The call is the one a pending handler awaits, or the first call of a
\* request sent now (the INSERT of a submit, the selection of a poll).
StoreRejects(p) ==
    /\ \/ /\ pc[p] \in {"match", "q2", "upd1", "upd2"}
          /\ req' = req
          /\ nreq' = nreq
       \/ /\ pc[p] = "idle"
          /\ nreq < quota
          /\ nreq' = nreq + 1
          /\ \E cookie \in Cookies \cup {NULL}, ip \in Addresses, ua \in Agents :
                req' = [req EXCEPT ![p] = NewReq("text", cookie, ip, ua, Hello1)]
       \/ /\ pc[p] = "idle"
          /\ nreq < quota
          /\ nreq' = nreq + 1
          /\ \E cookie \in Cookies \cup {NULL}, ip \in Visitors, ua \in Agents :
                LET rq == NewReq("poll", cookie, ip, ua, <<>>)
                    sid == IF rq.sid = NULL /\ rev # "sqlite_random" THEN Anon ELSE rq.sid
                IN  req' = [req EXCEPT ![p] = [rq EXCEPT !.sid = sid, !.exId = PollExcludeId]]
    /\ pc' = [pc EXCEPT ![p] = "err"]
    /\ pick' = [pick EXCEPT ![p] = 0]
    /\ last' = NoLast
    /\ UNCHANGED <<rev, now, secrets, log, quota>>

\* Variant: a catch block that deletes the row the request inserted.
CatchRollsBack(p) ==
    /\ pc[p] = "err"
    /\ CatchReply(p)
    /\ secrets' = IF req[p].exId = Len(secrets) /\ Len(secrets) > 0
                  THEN SubSeq(secrets, 1, Len(secrets) - 1)
                  ELSE secrets
    /\ UNCHANGED <<rev, now, nreq, quota>>

\* The catch block of the handler.
Catch(p) ==
    /\ pc[p] = "err"
    /\ CatchReply(p)
    /\ UNCHANGED <<rev, now, secrets, nreq, quota>>

\* Requests against a store whose calls may fail.
InitFaults == InitRev(Revisions, MaxChecks)

NextFaults ==
    \/ \E p \in Procs : SubmitText(p, {Hello1, Hello2})
    \/ \E p \in Procs : SubmitAudio(p)
    \/ \E p \in Procs : Poll(p)
    \/ \E p \in Procs : Match(p)
    \/ \E p \in Procs : SecondSelection(p)
    \/ \E p \in Procs : Claim(p)
    \/ \E p \in Procs : StoreRejects(p)
    \/ \E p \in Procs : Catch(p)
    \/ Tick

SpecFaults == InitFaults /\ [][NextFaults]_vars

\* Two submits at most, and a visitor who keeps polling; handlers go on, and
\* time passes.
InitFair == InitRev({"pg_strict", "perm_author"}, MaxChecks)

NextFair ==
    \/ \E p \in Procs : Submits(p, {Hello1}, Cookies, {"10.0.0.1"})
    \/ \E p \in Procs : KeepsPolling(p)
    \/ \E p \in Procs : Match(p)
    \/ \E p \in Procs : Claim(p)
    \/ Tick

SpecFair ==
    /\ InitFair
    /\ [][NextFair]_vars
    /\ WF_vars(\E p \in Procs : KeepsPolling(p))
    /\ WF_vars(\E p \in Procs : Match(p) \/ Claim(p))
    /\ WF_vars(Tick)

\* Submissions of texts around the bounds of the validation.
InitChecks == InitRev(Revisions, MaxChecks)

NextChecks ==
    \/ \E p \in Procs : SubmitText(p, BoundaryTexts)
    \/ \E p \in Procs : SubmitAudio(p)
    \/ \E p \in Procs : Poll(p)
    \/ \E p \in Procs : Match(p)
    \/ \E p \in Procs : SecondSelection(p)
    \/ \E p \in Procs : Claim(p)
    \/ Tick

SpecChecks == InitChecks /\ [][NextChecks]_vars

\* The INSERT of a text submit in two steps.  The statement takes its
\* created_at when it is issued (DEFAULT NOW() is the start of the statement;
\* Date.now() is evaluated by the handler before db.run queues the statement)
\* and its id when the store executes it (nextval of BIGSERIAL,
\* AUTOINCREMENT), and the statements of two requests are executed in either
\* order.
Pending == Cardinality({q \in Procs : pc[q] = "ins"})

BeginInsert(p) ==
    /\ pc[p] = "idle"
    /\ nreq < quota
    /\ nreq' = nreq + 1
    /\ \E cookie \in Cookies, ip \in Addresses, ua \in Agents, raw \in {Hello1, <<>>} :
          LET rq == NewReq("text", cookie, ip, ua, raw)
              text == Trim(raw)
          IN  IF text = <<>> \/ JsLength(text) < MinTextLen \/ JsLength(text) > MaxTextLen
              THEN Reply(p, rq, 400, NoLast, 0)
              ELSE IF violatesPolicy(rev, text)
              THEN Reply(p, rq, 400, NoLast, 0)
              ELSE /\ Len(secrets) + Pending < MaxItems
                   /\ pc' = [pc EXCEPT ![p] = "ins"]
                   /\ req' = [req EXCEPT ![p] = [rq EXCEPT !.at = now]]
                   /\ last' = NoLast
                   /\ UNCHANGED <<pick, log>>
    /\ UNCHANGED <<rev, now, secrets, quota>>

EndInsert(p) ==
    /\ pc[p] = "ins"
    /\ LET rq == req[p]
           id == NextId
       IN  /\ secrets' = Append(secrets, NewRow(id, "text", Trim(rq.raw), rq.at,
                                                rq.sid, rq.author))
           /\ pc' = [pc EXCEPT ![p] = "match"]
           /\ req' = [req EXCEPT ![p] = [rq EXCEPT !.exId = id]]
           /\ last' = NoLast
    /\ UNCHANGED <<rev, now, pick, log, nreq, quota>>

\* Time passes, also while a statement is in flight.
Elapse ==
    /\ now < MaxTicks * TickSeconds
    /\ now' = now + TickSeconds
    /\ last' = NoLast
    /\ UNCHANGED <<rev, secrets, pc, req, pick, log, nreq, quota>>

InitInserts == InitRev({"perm_author", "sqlite_fallback"}, MaxChecks)

NextInserts ==
    \/ \E p \in Procs : BeginInsert(p)
    \/ \E p \in Procs : EndInsert(p)
    \/ \E p \in Procs : Match(p)
    \/ \E p \in Procs : SecondSelection(p)
    \/ \E p \in Procs : Claim(p)
    \/ Elapse

SpecInserts == InitInserts /\ [][NextInserts]_vars

\* "perm_author" with inserts in two steps: submits whose INSERT lands late,
\* polls of any client, and a visitor who polls time and again.
InitPolls == InitRev({"perm_author"}, MaxChecks)

NextPolls ==
    \/ \E p \in Procs : BeginInsert(p)
    \/ \E p \in Procs : EndInsert(p)
    \/ \E p \in Procs : Match(p)
    \/ \E p \in Procs : Poll(p)
    \/ \E p \in Procs : KeepsPolling(p)
    \/ Elapse

SpecPolls == InitPolls /\ [][NextPolls]_vars

\* "pg_strict" started over a table that holds two unclaimed rows of two
\* sessions (CREATE TABLE IF NOT EXISTS keeps the rows of earlier runs), the
\* row of s1 the older one; two polls then race for them.
InitRace ==
    /\ rev = "pg_strict"
    /\ now = TickSeconds
    /\ secrets = <<NewRow(1, "text", Hello1, 0, "s1", NULL),
                   NewRow(2, "text", Hello2, TickSeconds, "s2", NULL)>>
    /\ pc = [p \in Procs |-> "idle"]
    /\ req = [p \in Procs |-> NoReq]
    /\ pick = [p \in Procs |-> 0]
    /\ last = NoLast
    /\ log = <<>>
    /\ nreq = 0
    /\ quota = MaxReqs

NextRace ==
    \/ \E p \in Procs : Poll(p)
    \/ \E p \in Procs : Claim(p)

SpecRace == InitRace /\ [][NextRace]_vars

\* Variant: created_total is queried first.
StatsCreatedFirst(r) ==
    <<"created_total", "available_for_you", "available_total", "exchanged_total">>

\* GET /api/stats.  The counters of the response, in the order the handler
\* queries them: "perm_author" runs two queries, the Postgres claim-once
\* revisions four, each awaited before the next is sent.
StatsQueries(r) ==
    IF r = "perm_author"
    THEN <<"available_total", "available_for_you">>
    ELSE <<"available_for_you", "available_total", "exchanged_total", "created_total">>

\* Variant: a count of the rows of the caller's own session.
AvailableOwn(r, sid, author) ==
    Cardinality({i \in 1..Len(secrets) : secrets[i].session_id = sid})

\* SELECT COUNT(*) ... of available_for_you
AvailableForYou(r, sid, author) ==
    IF r = "perm_author"
    THEN Cardinality({i \in 1..Len(secrets) :
                         /\ SqlNe(secrets[i].session_id, sid)
                         /\ IsDistinctFrom(secrets[i].author_hash, author)})
    ELSE Cardinality({i \in 1..Len(secrets) :
                         ~secrets[i].claimed /\ SqlNe(secrets[i].session_id, sid)})

\* SELECT COUNT(*) ... WHERE claimed = TRUE
ExchangedTotal == Cardinality({i \in 1..Len(secrets) : secrets[i].claimed})

\* The result of one query of the handler, run on the store as it is now.
StatsValue(name, sid, author) ==
    CASE name = "available_for_you" -> AvailableForYou(rev, sid, author)
      [] name = "available_total" -> AvailableTotal(rev)
      [] name = "exchanged_total" -> ExchangedTotal
      [] OTHER -> Len(secrets)

\* One more query of the stats request rq of p has been answered with v; after
\* the last one the handler sends the JSON.
StatsAnswered(p, rq, v) ==
    LET counts == Append(rq.counts, v)
    IN  IF Len(counts) < Len(StatsQueries(rev))
        THEN /\ pc' = [pc EXCEPT ![p] = "stats"]
             /\ req' = [req EXCEPT ![p] = [rq EXCEPT !.counts = counts]]
             /\ last' = NoLast
        ELSE /\ pc' = [pc EXCEPT ![p] = "idle"]
             /\ req' = [req EXCEPT ![p] = NoReq]
             /\ last' = [NoLast EXCEPT !.proc = p, !.kind = "stats", !.sid = rq.sid,
                                       !.author = rq.author, !.status = 200,
                                       !.body = [type |-> "stats", ref |-> 0,
                                                 text |-> counts]]

\* GET /api/stats, up to the await of its first query
Stats(p) ==
    /\ pc[p] = "idle"
    /\ nreq < quota
    /\ nreq' = nreq + 1
    /\ \E cookie \in Cookies \cup {NULL}, ip \in Addresses, ua \in Agents :
          LET rq == NewReq("stats", cookie, ip, ua, <<>>)
              sid == IF rq.sid = NULL THEN Anon ELSE rq.sid
          IN  /\ pc' = [pc EXCEPT ![p] = "stats"]
              /\ req' = [req EXCEPT ![p] = [rq EXCEPT !.sid = sid]]
              /\ last' = NoLast
    /\ UNCHANGED <<rev, now, secrets, pick, log, quota>>

\* A query of GET /api/stats is run and answered.
StatsQuery(p) ==
    /\ pc[p] = "stats"
    /\ LET rq == req[p]
           name == StatsQueries(rev)[Len(rq.counts) + 1]
       IN  StatsAnswered(p, rq, StatsValue(name, rq.sid, rq.author))
    /\ UNCHANGED <<rev, now, secrets, pick, log, nreq, quota>>

InitStats == InitRev({"pg_strict", "pg_fallback", "perm_author"}, MaxReqs)

NextStats ==
    \/ \E p \in Procs : Submits(p, {Hello1}, Cookies, {"10.0.0.1"})
    \/ \E p \in Procs : Match(p)
    \/ \E p \in Procs : SecondSelection(p)
    \/ \E p \in Procs : Claim(p)
    \/ \E p \in Procs : Stats(p)
    \/ \E p \in Procs : StatsQuery(p)

SpecStats == InitStats /\ [][NextStats]_vars

\* The re-check of "pg_strict" as a function of its inputs: the claim
\* statement of a call getExchangeSecret(sid, exId) hands back any row of any
\* session (the row picked), and the step after the statement applies the
\* re-check to it.
InitRecheck ==
    /\ rev = "pg_strict"
    /\ now = 0
    /\ \E n \in 1..MaxItems : \E owner \in [1..n -> Cookies] :
          secrets = [i \in 1..n |-> NewRow(i, "text", Hello1, 0, owner[i], NULL)]
    /\ \E p \in Procs, sid \in Cookies, exId \in {PollExcludeId} \cup (1..MaxItems),
          id \in 1..MaxItems :
          /\ id <= Len(secrets)
          /\ pc = [q \in Procs |-> IF q = p THEN "upd1" ELSE "idle"]
          /\ req = [q \in Procs |->
                       IF q = p
                       THEN [NoReq EXCEPT
                               !.kind = IF exId = PollExcludeId THEN "poll" ELSE "text",
                               !.sid = sid, !.exId = exId]
                       ELSE NoReq]
          /\ pick = [q \in Procs |-> IF q = p THEN id ELSE 0]
    /\ last = NoLast
    /\ log = <<>>
    /\ nreq = 1
    /\ quota = 1

NextRecheck == \E p \in Procs : Claim(p)

SpecRecheck == InitRecheck /\ [][NextRecheck]_vars

(***************************************************************************)
(* Properties.  A state in which last.status # 0 is the state right after  *)
(* a handler replied: the store is the store the handler left.             *)
(***************************************************************************)
Replied == last.status # 0
Delivered == last.status = 200
IsSubmit(kind) == kind \in {"text", "audio"}
AllIdle == \A p \in Procs : pc[p] = "idle"

\* The deliveries of row id so far.
DeliveriesOf(id) == {k \in DOMAIN log : log[k].id = id}

\* C1: in the Postgres claim-once revisions ("pg_strict", "pg_fallback") a row
\* is returned to at most one call: no two deliveries carry the same id, also
\* when several callers of other sessions claim concurrently.
C1_ExactlyOnce ==
    rev \in {"pg_strict", "pg_fallback"} =>
        \A id \in 1..Len(secrets) : Cardinality(DeliveriesOf(id)) <= 1

\* C2: in "perm_author" (src/server.js) the row returned to a caller never
\* carries the caller's session id nor the caller's author fingerprint.
C2_NoSelfMatch ==
    (rev = "perm_author" /\ Delivered) =>
        /\ RowOf(last.id).session_id # last.sid
        /\ RowOf(last.id).author_hash # last.author

\* C2, reached: a caller who authored a row under another cookie, from the
\* same address and agent, is handed a row, and it is a row of another author.
C2_Reached ==
    /\ rev = "perm_author"
    /\ Delivered
    /\ \E i \in 1..Len(secrets) :
          /\ secrets[i].author_hash = last.author
          /\ secrets[i].session_id # last.sid
          /\ i # last.id

C4_NotTheInserted ==
    (Delivered /\ IsSubmit(last.kind)) => last.id # last.exId

\* C4, reached: a fallback revision answered a submit with an older row of the
\* submitter's own session.
C4_Reached ==
    /\ HasFallback(rev)
    /\ Delivered
    /\ IsSubmit(last.kind)
    /\ last.exId # 0
    /\ RowOf(last.id).session_id = last.sid
    /\ last.id # last.exId

\* C5: in "pg_strict", successive claims of one caller (the calls of one
\* connection under one session id) return rows in non-decreasing created_at
\* order, a different row per call, and a poll is answered 204 only when no
\* unclaimed row of another session is left.
C5_Fifo ==
    rev = "pg_strict" =>
        /\ \A j, k \in DOMAIN log :
              (j < k /\ log[j].proc = log[k].proc /\ log[j].sid = log[k].sid) =>
                  /\ RowOf(log[j].id).created_at <= RowOf(log[k].id).created_at
                  /\ log[j].id # log[k].id
        /\ (last.status = 204 /\ last.kind = "poll") =>
              \A i \in 1..Len(secrets) :
                  secrets[i].claimed \/ secrets[i].session_id = last.sid

\* C5, reached: one caller polled twice and was handed two rows of other
\* sessions, the older one first, and no unclaimed row is left.
C5_Reached ==
    /\ rev = "pg_strict"
    /\ Delivered
    /\ last.kind = "poll"
    /\ Len(log) = 2
    /\ log[1].proc = log[2].proc
    /\ log[1].sid = log[2].sid
    /\ RowOf(log[1].id).created_at < RowOf(log[2].id).created_at
    /\ \A i \in 1..Len(secrets) : secrets[i].claimed /\ secrets[i].session_id # last.sid

\* The WHERE clause request rq is selected with.
Eligible(rq, row, t) ==
    IF rq.kind = "poll" /\ Permanent(rev)
    THEN PollWhere(rev, row, rq.sid, rq.author, t)
    ELSE ExchangeWhere(rev, row, rq.exId, rq.sid, rq.author, t)

\* Row id comes first among the rows eligible for rq: smallest created_at,
\* and smallest id among those.
FirstEligible(rq, id, t) ==
    /\ Eligible(rq, RowOf(id), t)
    /\ \A i \in 1..Len(secrets) :
          Eligible(rq, secrets[i], t) =>
              \/ RowOf(id).created_at < secrets[i].created_at
              \/ RowOf(id).created_at = secrets[i].created_at /\ id <= i

\* A step in which a selection of "perm_author" or "pg_strict" finds a row
\* finds the first eligible row.
SelectsFirst ==
    /\ (rev = "perm_author" /\ last'.status = 200 /\ secrets' = secrets) =>
          FirstEligible(last', last'.id, now)
    /\ rev = "pg_strict" =>
          \A p \in Procs :
              (pc[p] \in {"idle", "match"} /\ pc'[p] = "upd1") =>
                  FirstEligible(req'[p], pick'[p], now)

\* C6: in "perm_author" and "pg_strict" every selection finds the eligible row
\* of smallest created_at, and among rows sharing it, the one of smallest id.
C6_SelectionRule == [][SelectsFirst]_vars

\* C7: in "perm_author" a row created less than 3 seconds before the selection
\* ran is never returned, by a submit or by a poll.
C7_RaceGuard ==
    (rev = "perm_author" /\ Delivered) =>
        ~(last.t - RowOf(last.id).created_at < 3)

\* C7, reached: a poll is answered 204 while the only row of the store is of
\* another session and another author, and younger than the grace window.
C7_Reached ==
    /\ rev = "perm_author"
    /\ last.status = 204
    /\ last.kind = "poll"
    /\ Len(secrets) = 1
    /\ secrets[1].session_id # last.sid
    /\ secrets[1].author_hash # last.author
    /\ now - secrets[1].created_at < 3

\* The rows of the store before the step are unchanged by it.
RowsKept == SubSeq(secrets', 1, Len(secrets)) = secrets /\ Len(secrets') >= Len(secrets)

\* A step of a permanent revision keeps every stored row, and keeps the store
\* as it is unless it is the INSERT of a submit (a handler going on to match).
ReadsOnly ==
    rev \in {"perm_author", "perm_session"} =>
        /\ RowsKept
        /\ \/ secrets' = secrets
           \/ \E p \in Procs : pc[p] = "idle" /\ pc'[p] = "match"

\* C8: in the permanent revisions ("perm_author", "perm_session") no step
\* changes a stored row, and the number of rows changes only by the INSERT of a
\* submit: a poll, and the matching step of a submit, leave the store as it is.
C8_PureRead == [][ReadsOnly]_vars

\* C8, reached: a permanent revision handed the same row to two requests, the
\* second a poll, and the row is as it was inserted.
C8_Reached ==
    /\ Permanent(rev)
    /\ Delivered
    /\ last.kind = "poll"
    /\ Len(log) = 2
    /\ log[1].id = log[2].id
    /\ \E k \in 1..Len(secrets) : secrets[k].id = last.id /\ ~secrets[k].claimed
    /\ \A k \in 1..Len(secrets) : ~secrets[k].claimed /\ secrets[k].claimed_by = NULL

\* The store of the scenario: 'hello1' of identity A, then 'hello2' of another
\* identity B, submitted later.
ScenarioStore ==
    /\ Len(secrets) = 2
    /\ secrets[1].text = Hello1
    /\ secrets[2].text = Hello2
    /\ secrets[2].session_id # secrets[1].session_id
    /\ secrets[2].author_hash # secrets[1].author_hash \/ rev # "perm_author"
    /\ secrets[2].created_at > secrets[1].created_at

\* A's submit was answered NoMatch: nothing was delivered to A's session.
ANoMatch == \A k \in DOMAIN log : log[k].sid # secrets[1].session_id

\* Stage 1: A's submit of 'hello1' into the empty store has been answered.
AfterA ==
    /\ nreq = 1
    /\ Replied
    /\ last.kind = "text"
    /\ last.raw = Hello1
    /\ Len(secrets) = 1

\* Stage 2: B's submit of 'hello2' has been answered, its selection run after
\* the grace window of 'hello1'.
AfterB ==
    /\ nreq = 2
    /\ AllIdle
    /\ ScenarioStore
    /\ ANoMatch
    /\ Replied
    /\ last.kind = "text"
    /\ last.exId = 2
    /\ last.sid = secrets[2].session_id
    /\ secrets[1].created_at < now - GraceSeconds \/ rev # "perm_author"

\* Stage 3 begins: both submits have been answered, B's with 'hello1'.
BeforeC ==
    /\ nreq = 2
    /\ AllIdle
    /\ ScenarioStore
    /\ ANoMatch
    /\ Len(log) = 1
    /\ log[1].sid = secrets[2].session_id
    /\ log[1].id = 1

\* The request process p sends in this step.
Sent(p) == IF pc'[p] = "idle" THEN last' ELSE req'[p]

\* Process p sends the poll of a third identity C in this step.
CPolls(p) ==
    /\ BeforeC
    /\ pc[p] = "idle"
    /\ nreq' = nreq + 1
    /\ Sent(p).kind = "poll"
    /\ pc'[p] = "idle" => last'.proc = p
    /\ Sent(p).sid \notin {secrets[1].session_id, secrets[2].session_id}
    /\ Sent(p).author \notin {secrets[1].author_hash, secrets[2].author_hash}
          \/ rev # "perm_author"

GotHello1 == Delivered /\ last.id = 1 /\ last.body.type = "text" /\ last.body.text = Hello1

\* The steps of the scenario end as the scenario says.
ScenarioStep ==
    /\ (rev \in {"pg_strict", "perm_author"} /\ AfterA') =>
          (last'.status = 204 /\ AvailableTotal(rev)' = 1)
    /\ (rev \in {"pg_strict", "perm_author"} /\ AfterB') => GotHello1'
    /\ rev = "pg_strict" =>
          \A p \in Procs :
              /\ CPolls(p) => (pick'[p] # 1 /\ ~GotHello1')
              /\ (pc[p] = "upd1" /\ last'.proc = p /\ last'.status = 200) =>
                    last'.id = pick[p]
    /\ rev = "perm_author" =>
          \A p \in Procs : CPolls(p) => GotHello1'

\* C9: from an empty store, in "pg_strict" and in "perm_author": A's submit of
\* 'hello1' is answered NoMatch with available_total = 1; B's submit of
\* 'hello2' after the grace window is answered with 'hello1'; the poll a third
\* identity C sends then does not find 'hello1' in "pg_strict" (and is answered
\* with the row it found) and is answered with 'hello1' in "perm_author".
C9_Scenario == [][ScenarioStep]_vars

\* C9, reached: in "perm_author" the third identity's poll has been answered
\* with 'hello1', after B's submit was.
C9_Reached ==
    /\ rev = "perm_author"
    /\ nreq = 3
    /\ AllIdle
    /\ ScenarioStore
    /\ ANoMatch
    /\ Len(log) = 2
    /\ log[1].sid = secrets[2].session_id
    /\ log[1].id = 1
    /\ last.kind = "poll"
    /\ last.sid \notin {secrets[1].session_id, secrets[2].session_id}
    /\ last.author \notin {secrets[1].author_hash, secrets[2].author_hash}
    /\ GotHello1

\* The denylist matches the text.
OnDenylist(text) ==
    \E re \in Banned(rev) : \E i \in 1..Len(text) : ReTest(re, text[i])

\* Process p sends a text submit in this step.
SendsText(p) ==
    /\ pc[p] = "idle"
    /\ nreq' = nreq + 1
    /\ \/ pc'[p] = "match" /\ req'[p].kind = "text"
       \/ pc'[p] = "idle" /\ last'.proc = p /\ last'.kind = "text"

\* The raw text of the submit p sends in this step.
SentRaw(p) == IF pc'[p] = "match" THEN req'[p].raw ELSE last'.raw

\* A text submit whose trimmed text is out of bounds or on the denylist is
\* answered 400 and leaves the store as it is; in "perm_author" and
\* "pg_strict" one of exactly 5 or 1000 characters off the denylist is inserted.
Validates ==
    \A p \in Procs :
        SendsText(p) =>
            LET text == Trim(SentRaw(p))
                n == JsLength(text)
            IN  /\ (n < 5 \/ n > 1000 \/ OnDenylist(text)) =>
                      /\ last'.proc = p
                      /\ last'.status = 400
                      /\ secrets' = secrets
                /\ ((n = 5 \/ n = 1000) /\ ~OnDenylist(text)
                        /\ rev \in {"perm_author", "pg_strict"}) =>
                      /\ Len(secrets') = Len(secrets) + 1
                      /\ SubSeq(secrets', 1, Len(secrets)) = secrets
                      /\ secrets'[Len(secrets')].text = text
                      /\ ~secrets'[Len(secrets')].claimed

\* C10: a text submit whose trimmed text has fewer than 5 or more than 1000
\* characters, or matches the denylist, is answered 400, and nothing is
\* inserted or claimed; a text of exactly 5 or exactly 1000 characters that
\* passes the denylist is inserted.
C10_Validation == [][Validates]_vars

\* C10, reached: the store holds a text of 1000 characters, and a submit of
\* 1001 characters has been answered 400.
C10_Reached ==
    /\ rev \in {"perm_author", "pg_strict"}
    /\ last.status = 400
    /\ last.kind = "text"
    /\ JsLength(Trim(last.raw)) = 1001
    /\ Len(secrets) = 1
    /\ JsLength(secrets[1].text) = 1000

\* Two submits of distinct sessions are all that was sent to "pg_strict", and
\* both INSERTs are done.
TwoSubmits ==
    /\ rev = "pg_strict"
    /\ nreq = 2
    /\ Len(secrets) = 2
    /\ secrets[1].session_id # secrets[2].session_id

\* The submitter of row i received row j.
Received(i, j) ==
    \E k \in DOMAIN log : log[k].sid = secrets[i].session_id /\ log[k].id = j

\* The submitter of row i is about to select, has selected row j, or has
\* received row j.
Exchanging(i, j) ==
    \/ \E p \in Procs : pc[p] = "match" /\ req[p].exId = i
    \/ \E p \in Procs : pc[p] = "upd1" /\ req[p].exId = i /\ pick[p] = j
    \/ Received(i, j)

\* Each submitter received the other's row, and nothing else was delivered.
Exchanged ==
    /\ Received(1, 2)
    /\ Received(2, 1)
    /\ Len(log) = 2

\* Both rows are stored and neither submitter was answered NoMatch so far.
Racing == TwoSubmits /\ Exchanging(1, 2) /\ Exchanging(2, 1)

\* C11 as stated: when two distinct identities submit concurrently (within one
\* clock instant) into an empty "pg_strict" store, however their insert and
\* claim steps interleave, once both are answered each has received the
\* other's row exactly once.
C11_MutualAlways ==
    (TwoSubmits /\ AllIdle /\ secrets[1].created_at = secrets[2].created_at) =>
        Exchanged

\* While nothing else is sent, a race of two submits goes on as a race, ends
\* with each submitter holding the other's row, and a pending handler can step.
MutualStep ==
    (Racing /\ nreq' = nreq) =>
        /\ Racing'
        /\ AllIdle' => Exchanged'
        /\ \A p \in Procs : pc'[p] # "idle" => (ENABLED (Match(p) \/ Claim(p)))'

\* C11, amended: in "pg_strict", when both INSERTs of two concurrent submits of
\* distinct sessions precede both selections, each submitter receives the
\* other's row exactly once, no row is delivered twice and no handler is stuck.
C11_MutualAfterInserts == [][MutualStep]_vars

\* C11, reached: both submitters were racing and each holds the other's row.
C11_Reached ==
    /\ TwoSubmits
    /\ AllIdle
    /\ Exchanged
    /\ secrets[1].claimed_by = secrets[2].session_id
    /\ secrets[2].claimed_by = secrets[1].session_id

\* A step of a claim-once revision removes no row, writes the delivery state
\* of no row that is claimed already, and writes nothing else of any row.
WritesOnce ==
    ClaimOnce(rev) =>
        /\ Len(secrets') >= Len(secrets)
        /\ \A i \in 1..Len(secrets) :
              /\ secrets[i].claimed => secrets'[i] = secrets[i]
              /\ secrets'[i] = secrets[i]
                    \/ secrets'[i] = [secrets[i] EXCEPT !.claimed = TRUE,
                                                        !.claimed_by = secrets'[i].claimed_by]

\* C12: in the claim-once revisions the delivery state of a row is written at
\* most once (claimed FALSE -> TRUE, claimed_by set and never overwritten), a
\* claimed row never becomes unclaimed, and no row is removed.
C12_Lifecycle == [][WritesOnce]_vars

\* Process p sends a request in this step.
Sends(p) == pc[p] = "idle" /\ nreq' = nreq + 1 /\ (pc'[p] # "idle" \/ last'.proc = p)

\* Process p's handler is answered in this step.
Answered(p) == pc'[p] = "idle" /\ last'.proc = p /\ last'.status # 0

\* No row of the store passes the first selection of request rq.
NoneEligible(rq) == \A i \in 1..Len(secrets) : ~Eligible(rq, secrets[i], now)

\* No row of the store passes the second selection of request rq.
NoneLeft(rq) == \A i \in 1..Len(secrets) : ~FallbackWhere(secrets[i], rq.exId)

\* In a step of process p: a failed store call is answered 500 and nothing
\* else is; a selection that finds no row and does not fail is answered 204
\* (in the fallback revisions, after the second selection found none too);
\* and 204 is answered only when the last selection found no row.
Distinguishes(p) ==
    /\ (pc[p] = "err" /\ Answered(p)) => (last'.status = 500 /\ secrets' = secrets)
    /\ (Answered(p) /\ last'.status \in {200, 204}) => pc[p] # "err"
    /\ (pc[p] = "match" /\ pc'[p] \notin {"match", "err"} /\ NoneEligible(req[p]) /\ ~HasFallback(rev)) =>
          (Answered(p) /\ last'.status = 204)
    /\ (Sends(p) /\ Sent(p).kind = "poll" /\ pc'[p] # "err"
            /\ NoneEligible(Sent(p)) /\ ~HasFallback(rev)) =>
          (Answered(p) /\ last'.status = 204)
    /\ (pc[p] = "q2" /\ pc'[p] \notin {"q2", "err"} /\ NoneLeft(req[p])) =>
          (Answered(p) /\ last'.status = 204)
    /\ (Answered(p) /\ last'.status = 204 /\ pc[p] \in {"match", "idle"}) =>
          NoneEligible(last')
    /\ (Answered(p) /\ last'.status = 204 /\ pc[p] = "q2") => NoneLeft(last')

AllDistinguish == \A p \in Procs : Distinguishes(p)

\* C13: a submit or poll whose selection finds no eligible row is answered 204;
\* one whose store call (insert, select or claim) fails is answered 500; a
\* failed store call is never answered 204 or with a row.
C13_NoMatchOrFailure == [][AllDistinguish]_vars

\* C13, reached: a poll whose selection failed has been answered 500 while a
\* row it could have been handed lies in the store.
C13_Reached ==
    /\ last.status = 500
    /\ last.kind = "poll"
    /\ ~NoneEligible(last)

\* Row i is stored and has passed the grace window.
PastGrace(i) == i <= Len(secrets) /\ secrets[i].created_at < now - GraceSeconds

\* Row i has been returned to a session other than its owner's.
ReturnedToOther(i) ==
    /\ i <= Len(secrets)
    /\ \E k \in DOMAIN log : log[k].id = i /\ log[k].sid # secrets[i].session_id

C15_IdOrder ==
    \A i, j \in 1..Len(secrets) :
        /\ (i # j => secrets[i].id # secrets[j].id)
        /\ (secrets[i].id < secrets[j].id =>
                secrets[i].created_at <= secrets[j].created_at)

\* C16: every stored row carries a session id, and every submit that passed
\* validation, the first request of a client without a sid cookie included,
\* was handled with a defined session id (so it did not fail for lack of one).
C16_OwnerNeverAbsent ==
    /\ \A i \in 1..Len(secrets) : secrets[i].session_id # NULL
    /\ (Replied /\ IsSubmit(last.kind) /\ last.status # 400) => last.sid # NULL

\* A session that owns no stored row.
OwnsNothing(sid) == \A i \in 1..Len(secrets) : secrets[i].session_id # sid

\* p's claim is answered while the claim of another caller q is in flight, both
\* callers own no row, and the two stored rows were unclaimed until this step.
LosesRace(p, q) ==
    /\ p # q
    /\ pc[p] = "upd1" /\ pc'[p] = "idle"
    /\ pc[q] = "upd1"
    /\ OwnsNothing(req[p].sid) /\ OwnsNothing(req[q].sid)
    /\ Len(secrets) >= 2
    /\ \A i \in 1..Len(secrets) : ~secrets[i].claimed

FallsThrough ==
    \A p, q \in Procs :
        LosesRace(p, q) =>
            /\ last'.status = 200
            /\ pick[q] # pick[p]
            /\ {pick[p], pick[q]} = {1, 2}

\* C17: in "pg_strict", when two callers that own no row claim concurrently
\* against a store with two unclaimed eligible rows, one receives the oldest
\* row and the other the next-oldest: no caller gets NoMatch and the two
\* returned ids differ.
C17_FallThrough == [][FallsThrough]_vars

\* C18: in the SQLite claim-once revisions ("sqlite_fallback",
\* "sqlite_random"), whose matching is a SELECT followed by a separate UPDATE,
\* no row is returned to more than one request, however the steps of two
\* concurrent requests interleave.
C18_SqliteAtMostOnce ==
    IsSqlite(rev) =>
        \A i \in 1..Len(secrets) :
            \A k, l \in DOMAIN log : (log[k].id = i /\ log[l].id = i) => k = l

\* The grace window as the specification words it: age at least minAge.
OfAge(row, t) == t - row.created_at >= GraceSeconds

\* Row passes every condition of the selection of the answered request but the
\* grace window.
OtherwiseEligible(row) ==
    /\ SqlNe(row.session_id, last.sid)
    /\ IsDistinctFrom(row.author_hash, last.author)
    /\ (last.kind = "poll" \/ row.id # last.exId)

\* C19: in "perm_author" a row is eligible exactly when its age is at least 3
\* seconds: a returned row has that age, and no request is answered 204 while
\* an otherwise eligible row of age 3 or more (age exactly 3 included) is
\* stored.
C19_GraceBoundary ==
    rev = "perm_author" =>
        /\ Delivered => OfAge(RowOf(last.id), last.t)
        /\ (Replied /\ last.status = 204) =>
              \A i \in 1..Len(secrets) :
                  ~(OtherwiseEligible(secrets[i]) /\ OfAge(secrets[i], now))

\* In a step that ends the claim statement of p: a row whose id equals the
\* excluded id, or whose session is the caller's, is not returned.
Rechecks ==
    \A p \in Procs :
        (/\ pc[p] = "upd1" /\ pc'[p] = "idle"
         /\ \/ RowOf(pick[p]).id = req[p].exId
            \/ RowOf(pick[p]).session_id = req[p].sid)
        => last'.status = 204

NoIdFilter(sid) ==
    OrderLimit1(rev, {i \in 1..Len(secrets) :
                         ~secrets[i].claimed /\ SqlNe(secrets[i].session_id, sid)})

\* The second selection of the fallback revisions without its id predicate.
NoIdFilterAny == OrderLimit1(rev, {i \in 1..Len(secrets) : ~secrets[i].claimed})

\* No stored row has the sentinel id, the selections with the sentinel find
\* what the selections without an id predicate find, and a poll selects with
\* the sentinel.
ExcludesNothing ==
    ClaimOnce(rev) =>
        /\ \A i \in 1..Len(secrets) : secrets[i].id # PollExcludeId
        /\ \A sid \in Cookies \cup {Anon} \cup {NanoIds[n] : n \in 1..Len(NanoIds)} :
              ExchangeCandidates(rev, PollExcludeId, sid, NULL, now) = NoIdFilter(sid)
        /\ FallbackCandidates(rev, PollExcludeId) = NoIdFilterAny
        /\ \A p \in Procs :
              (Sends(p) /\ Sent(p).kind = "poll") =>
                  /\ Sent(p).exId = PollExcludeId
                  /\ pc'[p] = "upd1" => pick'[p] \in NoIdFilter(Sent(p).sid)
                  /\ pc'[p] # "upd1" => NoIdFilter(Sent(p).sid) = {}
        /\ \A p \in Procs :
              (pc[p] = "q2" /\ req[p].kind = "poll" /\ pc'[p] # "q2") =>
                  /\ pc'[p] = "upd2" => pick'[p] \in NoIdFilterAny
                  /\ pc'[p] # "upd2" => NoIdFilterAny = {}

\* C21: in the claim-once revisions a poll selects with the sentinel
\* excludeId = -1, and in every store state it selects the row the same
\* selection without the id predicate selects: no stored row has id -1.
C21_PollExcludesNothing == [][ExcludesNothing]_vars

\* C21, reached: in a claim-once revision a poll has been answered with a row.
C21_Reached == ClaimOnce(rev) /\ Delivered /\ last.kind = "poll" /\ last.exId = PollExcludeId

\* The store holds an unclaimed row of a session other than sid whose id is
\* not exId.
OtherSessionWaits(sid, exId) ==
    \E i \in 1..Len(secrets) :
        /\ ~secrets[i].claimed
        /\ secrets[i].id # exId
        /\ secrets[i].session_id # sid

\* A selection step of p that selects a row of p's own session finds no
\* unclaimed row of another session in the store.
OwnOnlyIfNoOther ==
    HasFallback(rev) =>
        \A p \in Procs :
            (/\ pc[p] \in {"idle", "match", "q2"}
             /\ pc'[p] \in {"upd1", "upd2"}
             /\ RowOf(pick'[p]).session_id = req'[p].sid)
            => ~OtherSessionWaits(req'[p].sid, req'[p].exId)

\* C22: in the fallback revisions a row of the caller's own session is
\* selected only if, when it is selected, the store holds no unclaimed row of
\* another session with an id other than excludeId, also when other requests
\* insert or claim between the first and the second selection.
C22_OtherSessionFirst == [][OwnOnlyIfNoOther]_vars

\* Row i keeps everything but claimed and claimed_by in this step.
KeepsContent(i) ==
    /\ secrets'[i].id = secrets[i].id
    /\ secrets'[i].type = secrets[i].type
    /\ secrets'[i].text = secrets[i].text
    /\ secrets'[i].created_at = secrets[i].created_at
    /\ secrets'[i].session_id = secrets[i].session_id
    /\ secrets'[i].author_hash = secrets[i].author_hash

\* The rows this step changes.
Changed == {i \in 1..Len(secrets) : secrets'[i] # secrets[i]}

\* No row is removed, every row keeps its content, at most one row changes,
\* and a row changes only in the step that ends the matching of a call, which
\* is the row that call selected.
FramesClaim ==
    ClaimOnce(rev) =>
        /\ Len(secrets') >= Len(secrets)
        /\ \A i \in 1..Len(secrets) : KeepsContent(i)
        /\ Cardinality(Changed) <= 1
        /\ \A i \in Changed :
              \E p \in Procs :
                  /\ pc[p] \in {"upd1", "upd2"} /\ pc'[p] = "idle"
                  /\ pick[p] = i

\* C23: in the claim-once revisions one call of the matching step changes at
\* most one row, and on that row only claimed and claimed_by; id, type,
\* payload, created_at and session_id of every row and all fields of every
\* other row stay as they are.
C23_ClaimFrame == [][FramesClaim]_vars

\* C23, reached: a call has claimed one of two stored rows, and the other row
\* is unclaimed.
C23_Reached ==
    /\ ClaimOnce(rev) /\ Delivered /\ Len(secrets) = 2
    /\ RowOf(last.id).claimed
    /\ \E i \in 1..Len(secrets) : i # last.id /\ ~secrets[i].claimed

\* Process p's submit is accepted in this step: its INSERT is done and the
\* handler goes on to the matching.
Accepted(p) == pc[p] = "idle" /\ pc'[p] = "match"

\* An accepted submit appends one row, and a row is appended only by an
\* accepted submit: the new row has the greatest id, the submitter's session
\* (and author fingerprint), is unclaimed, and the rows stored before are
\* untouched.
FramesInsert ==
    /\ \A p \in Procs : Accepted(p) => Len(secrets') = Len(secrets) + 1
    /\ Len(secrets') # Len(secrets) =>
          /\ Len(secrets') = Len(secrets) + 1
          /\ \A i \in 1..Len(secrets) : secrets'[i] = secrets[i]
          /\ LET new == secrets'[Len(secrets')]
             IN  /\ \A i \in 1..Len(secrets) : new.id > secrets[i].id
                 /\ ~new.claimed /\ new.claimed_by = NULL
                 /\ new.session_id # NULL
                 /\ \E p \in Procs :
                       /\ Accepted(p)
                       /\ req'[p].sid = new.session_id
                       /\ req'[p].author = new.author_hash
                       /\ req'[p].exId = new.id
                       /\ new.type = req'[p].kind

\* C24: an accepted submit adds exactly one row, whose id is greater than
\* every existing id, whose owner is the submitter's identity and which is
\* unclaimed (claimed = FALSE, claimed_by unset); the insert changes no field
\* of any existing row.
C24_InsertFrame == [][FramesInsert]_vars

\* C24, reached: a submit has just been accepted into a store that held a row.
C24_Reached ==
    /\ Len(secrets) = 2
    /\ \E p \in Procs : pc[p] = "match" /\ req[p].exId = 2 /\ ~secrets[2].claimed

\* C25: in "pg_strict", in every reachable state a row is claimed if and only
\* if it has been returned to exactly one completed submit or poll, and its
\* claimed_by is the session of that request.
C25_DeliveredIffClaimed ==
    rev = "pg_strict" =>
        \A i \in 1..Len(secrets) :
            /\ secrets[i].claimed <=> Cardinality(DeliveriesOf(i)) = 1
            /\ secrets[i].claimed =>
                  \A k \in DeliveriesOf(i) : log[k].sid = secrets[i].claimed_by

\* The counter of the given name in the stats response last holds.
StatsField(name) ==
    last.body.text[CHOOSE k \in 1..Len(StatsQueries(rev)) : StatsQueries(rev)[k] = name]

\* C26: in the Postgres claim-once revisions every /api/stats response, also
\* one computed while submits and polls run, has available_total +
\* exchanged_total = created_total and available_for_you <= available_total.
C26_StatsConsistent ==
    (rev \in {"pg_strict", "pg_fallback"} /\ last.kind = "stats" /\ last.status = 200) =>
        /\ StatsField("available_total") + StatsField("exchanged_total")
              = StatsField("created_total")
        /\ StatsField("available_for_you") <= StatsField("available_total")

\* C26, as it holds: in the Postgres claim-once revisions the counters of one
\* store state satisfy available_total + exchanged_total = created_total and
\* available_for_you <= available_total, and in every /api/stats response
\* available_for_you, available_total and exchanged_total are each at most
\* created_total, which is queried last.
C26_StatsBounds ==
    rev \in {"pg_strict", "pg_fallback"} =>
        /\ AvailableTotal(rev) + ExchangedTotal = Len(secrets)
        /\ \A sid \in Cookies \cup {Anon} \cup {NanoIds[n] : n \in 1..Len(NanoIds)} :
              AvailableForYou(rev, sid, NULL) <= AvailableTotal(rev)
        /\ (last.kind = "stats" /\ last.status = 200) =>
              /\ StatsField("available_for_you") <= StatsField("created_total")
              /\ StatsField("available_total") <= StatsField("created_total")
              /\ StatsField("exchanged_total") <= StatsField("created_total")

\* C26, reached: a response whose counters were read around a submit or a
\* claim: they do not add up.
C26_Reached ==
    /\ rev \in {"pg_strict", "pg_fallback"}
    /\ last.kind = "stats" /\ last.status = 200
    /\ StatsField("available_total") + StatsField("exchanged_total")
          # StatsField("created_total")

\* The identities a caller of "perm_author" can have: a cookie or a session
\* the state holds, and an address.
Callers ==
    {<<sid, authorFingerprint(ip, ua)>> :
        sid \in (Cookies \cup {VisitorCookie} \cup KnownSids) \ {NULL},
        ip \in Visitors, ua \in Agents}

\* The rows a poll of (sid, author) can be handed now.
EligibleNow(sid, author) ==
    {i \in 1..Len(secrets) : PollWhere(rev, secrets[i], sid, author, now)}

\* C27: in "perm_author", in every store state, for every caller:
\* available_for_you is at least the number of rows eligible for the caller
\* and at most available_total; and when a poll has returned a row to a
\* caller, available_for_you of that caller in that state is at least 1.
C27_StatsBoundPoll ==
    rev = "perm_author" =>
        /\ \A c \in Callers :
              /\ AvailableForYou(rev, c[1], c[2]) >= Cardinality(EligibleNow(c[1], c[2]))
              /\ AvailableForYou(rev, c[1], c[2]) <= AvailableTotal(rev)
        /\ (Delivered /\ last.kind = "poll") =>
              AvailableForYou(rev, last.sid, last.author) >= 1

\* C27, reached: a poll has returned a row to a caller, for whom the row
\* counts as available.
C27_Reached ==
    /\ rev = "perm_author" /\ Delivered /\ last.kind = "poll"
    /\ <<last.sid, last.author>> \in Callers
    /\ AvailableForYou(rev, last.sid, last.author) = 1

\* No stored row is older than row i.
Oldest(i) == \A j \in 1..Len(secrets) : secrets[i].created_at <= secrets[j].created_at

\* Every other stored row is newer than row i.
OnlyOldest(i) ==
    \A j \in 1..Len(secrets) : j # i => secrets[i].created_at < secrets[j].created_at

\* A poll of p is answered in this step.
PollAnswered(p) ==
    pc[p] = "idle" /\ last'.proc = p /\ last'.kind = "poll" /\ last'.status # 0

\* A poll of a caller who differs in sid and in author from an oldest row that
\* is older than 3 seconds is answered with an oldest row, with that very row
\* when no other row is as old.
Dominates ==
    rev = "perm_author" =>
        \A p \in Procs :
            PollAnswered(p) =>
                \A i \in 1..Len(secrets) :
                    (/\ Oldest(i)
                     /\ secrets[i].session_id # last'.sid
                     /\ secrets[i].author_hash # last'.author
                     /\ now - secrets[i].created_at > GraceSeconds)
                    => /\ last'.status = 200
                       /\ Oldest(last'.id)
                       /\ OnlyOldest(i) => last'.id = i

\* C28: in "perm_author", every caller whose sid and author fingerprint both
\* differ from those of the oldest stored row receives that row from a poll
\* once it is older than 3 seconds, however many other rows exist and whatever
\* the caller received before.
C28_OldestDominates == [][Dominates]_vars

\* C28, reached: a caller who received the oldest of two rows before has
\* polled again and received it again.
C28_Reached ==
    /\ rev = "perm_author" /\ Delivered /\ last.kind = "poll"
    /\ Len(secrets) = 2 /\ OnlyOldest(last.id)
    /\ \E k \in DOMAIN log : log[k].sid = last.sid /\ log[k].id = last.id
    /\ pc # [p \in Procs |-> "idle"]

\* The stored created_at values are pairwise distinct.
DistinctTimes ==
    \A i, j \in 1..Len(secrets) :
        i # j => secrets[i].created_at # secrets[j].created_at

\* C29: in "perm_author", while the stored created_at values are distinct, the
\* polls of one identity (the visitor, who polls time and again with one
\* cookie from one address) all return the same row, whatever submits happen
\* between them.
C29_StablePolls ==
    (rev = "perm_author" /\ DistinctTimes) =>
        \A k, l \in DOMAIN log :
            (log[k].sid = VisitorCookie /\ log[l].sid = VisitorCookie) =>
                log[k].id = log[l].id

\* A poll of the given identity.
PollOf(sid, author) ==
    [NoReq EXCEPT !.kind = "poll", !.sid = sid, !.author = author,
                  !.exId = PollExcludeId]

\* Row is eligible for the polls of every other identity once the grace window
\* is over.
EligibleForOthers(row) ==
    \A c \in Callers :
        (c[1] # row.session_id /\ c[2] # row.author_hash) =>
            Eligible(PollOf(c[1], IF rev = "perm_author" THEN c[2] ELSE NULL), row,
                     row.created_at + GraceSeconds + 1)

\* A store call that fails changes no row; a submit whose INSERT succeeded and
\* whose matching failed is answered 500 with the inserted row still stored
\* under the submitter's session, and eligible for the others unless one of
\* them claimed it; and every accepted submit, a repeated one too, adds a row.
KeepsInsert ==
    /\ \A p \in Procs :
          (pc[p] \in {"match", "q2", "upd1", "upd2"} /\ pc'[p] = "err") =>
              secrets' = secrets
    /\ \A p \in Procs :
          (pc[p] = "err" /\ Answered(p) /\ IsSubmit(req[p].kind) /\ req[p].exId # 0) =>
              /\ last'.status = 500
              /\ secrets' = secrets
              /\ req[p].exId \in 1..Len(secrets')
              /\ secrets'[req[p].exId].session_id = req[p].sid
              /\ ~secrets'[req[p].exId].claimed =>
                    EligibleForOthers(secrets'[req[p].exId])
    /\ \A p \in Procs : Accepted(p) => Len(secrets') = Len(secrets) + 1

\* C30: when the INSERT of a submit succeeds and the selection or claim that
\* follows fails with a store error, the caller gets 500 and the inserted row
\* stays in the store, unclaimed and eligible for other identities; a repeated
\* submit adds a second row.
C30_NoRollback == [][KeepsInsert]_vars

\* C30, reached: a submit has been answered 500 after its INSERT, and its row
\* lies unclaimed in the store.
C30_Reached ==
    /\ last.status = 500 /\ IsSubmit(last.kind) /\ last.exId # 0
    /\ last.exId \in 1..Len(secrets)
    /\ ~RowOf(last.exId).claimed
    /\ RowOf(last.exId).session_id = last.sid

=============================================================================
